---- MODULE Spec2Model ----
(***************************************************************************)
(* Model of the diffai Python binding layer (src/src/lib.rs): the value    *)
(* converter between Python objects and serde_json::Value, the DiffResult  *)
(* codec, the options builder and the three entry points diff, diff_paths  *)
(* and format_output.                                                      *)
(*                                                                         *)
(* Python objects and Rust values are records tagged by the field k.       *)
(* Numbers are written m * 2^e (fields m and e), so that the 64-bit range  *)
(* tests of the extractions are stated at their real width.                *)
(***************************************************************************)
EXTENDS Integers, Sequences, FiniteSets, TLC

VARIABLES
    preserve_order, \* build of serde_json: Map keeps insertion order (TRUE) or sorts keys (FALSE)
    cv_pc,          \* value converter: "start", "lowered", "lifted"
    cv_in,          \* value converter: the Python object handed to python_to_json_value
    cv_lowered,     \* value converter: PyResult<Value> of python_to_json_value
    cv_lifted,      \* value converter: PyResult<PyObject> of json_value_to_python
    cd_pc,          \* codec: "start", "encoded", "given", "decoded", "reencoded"
    cd_result,      \* codec: the DiffResult handed to diff_result_to_python
    cd_encoded,     \* codec: PyResult<PyObject> of diff_result_to_python
    cd_list,        \* codec: the Python list handed to python_results_to_rust
    cd_decoded,     \* codec: PyResult<Vec<DiffResult>> of python_results_to_rust
    cd_reencoded,   \* codec: PyResult<PyObject> of diff_result_to_python of the decoded result
    op_pc,          \* options builder: "start", "built", "rebuilt"
    op_kwargs,      \* options builder: the keyword arguments (None, or Some dict)
    op_extra,       \* options builder: entries with unrecognized keys, added for the second call
    op_built,       \* options builder: PyResult<DiffOptions> of build_options_from_kwargs(op_kwargs)
    op_rebuilt,     \* options builder: the same for op_kwargs with the entries of op_extra added
    call_fn,        \* entry point called: "diff", "diff_paths" or "format_output"
    call_args,      \* its arguments
    call_pc,        \* "ready", the step to run next, "in_core" or "done"
    l_old_json,     \* diff: the lowered old
    l_new_json,     \* diff: the lowered new
    l_options,      \* diff, diff_paths: the DiffOptions built
    l_results,      \* the Vec<DiffResult> of the diff core or of python_results_to_rust, not yet consumed
    l_py_results,   \* diff, diff_paths: the items appended to the Python list so far
    l_output_format, \* format_output: the parsed OutputFormat
    call_ret,       \* what the call returned to Python: Pending, Ok(value) or Err(exception)
    call_log,       \* the steps run so far, each with its outcome
    gil,            \* holder of the interpreter lock: "caller" or "free"
    host_steps      \* steps another Python thread has run

cvVars == <<cv_pc, cv_in, cv_lowered, cv_lifted>>
cdVars == <<cd_pc, cd_result, cd_encoded, cd_list, cd_decoded, cd_reencoded>>
opVars == <<op_pc, op_kwargs, op_extra, op_built, op_rebuilt>>
callVars ==
    <<call_fn, call_args, call_pc, l_old_json, l_new_json, l_options, l_results, l_py_results,
      l_output_format, call_ret, call_log, gil, host_steps>>
vars == <<preserve_order, cvVars, cdVars, opVars, callVars>>

\* ------------------------------------------------------------------ bounds

\* Longest list / largest dict of the generated Python objects.
MaxLen == 2
\* Deepest nesting of containers in the generated Python objects.
MaxDepth == 2
\* Longest result sequence the diff core returns.
MaxResults == 2
\* Steps the other Python thread takes at most.
MaxHostSteps == 2

\* ------------------------------------------------------- program constants

\* Width of the i64 that extract::<i64> produces.
I64_BITS == 64
\* f64 holds magnitudes below 2^1024; a larger Python int overflows PyFloat_AsDouble.
F64_MAX_EXP == 1024

\* ---------------------------------------------------------------- results

Ok(v) == [ok |-> TRUE, val |-> v]
Err(e) == [ok |-> FALSE, err |-> e]
\* Option<T>
Some(v) == [some |-> TRUE, val |-> v]
None == [some |-> FALSE]
\* A result not computed yet.
Pending == [pending |-> TRUE]

\* A Python exception: its class and its message (pieces, in order).
PyErr(exc, msg) == [exc |-> exc, msg |-> msg]

\* PyErr::new::<PyTypeError, _>("Unsupported Python type")
UnsupportedType == PyErr("TypeError", <<"Unsupported Python type">>)

\* ---------------------------------------------------------- Python objects

PyNone == [k |-> "none"]
PyBool(b) == [k |-> "bool", b |-> b]
\* the int m * 2^e (arbitrary precision)
PyInt(m, e) == [k |-> "int", m |-> m, e |-> e]
\* a float: cls is "fin" (value m * 2^e), "nan", "inf" or "ninf"
PyFloat(cls, m, e) == [k |-> "float", cls |-> cls, m |-> m, e |-> e]
\* a str; utf8 is FALSE for a str holding a lone surrogate, which has no UTF-8 encoding
PyStr(s, utf8) == [k |-> "str", s |-> s, utf8 |-> utf8]
PyList(items) == [k |-> "list", items |-> items]
PyTuple(items) == [k |-> "tuple", items |-> items]
\* a dict: its (key, value) pairs in insertion order, keys distinct
PyDict(entries) == [k |-> "dict", entries |-> entries]
\* any other object; proto is the number protocol it implements:
\* "none", "index" (__index__ returns the int m * 2^e), "float" (__float__ returns m * 2^e)
PyObj(proto, m, e) == [k |-> "obj", proto |-> proto, m |-> m, e |-> e]

\* type(x).__name__
TypeName(x) ==
    CASE x.k = "none" -> "NoneType"
      [] x.k = "obj" -> "object"
      [] OTHER -> x.k

\* ------------------------------------------------------------ Rust values

\* f64: cls "fin" (m * 2^e), "nan", "inf", "ninf"
F64(cls, m, e) == [cls |-> cls, m |-> m, e |-> e]

JNull == [k |-> "Null"]
JBool(b) == [k |-> "Bool", b |-> b]
\* serde_json::Number: repr is "PosInt" (u64), "NegInt" (i64 < 0) or "Float" (finite f64)
JNumber(repr, m, e) == [k |-> "Number", repr |-> repr, m |-> m, e |-> e]
JString(s) == [k |-> "String", s |-> s]
JArray(items) == [k |-> "Array", items |-> items]
\* serde_json::Map<String, Value>: its (key, value) pairs in iteration order
JObject(entries) == [k |-> "Object", entries |-> entries]

\* ------------------------------------------------------------ number range

Abs(n) == IF n < 0 THEN -n ELSE n

RECURSIVE BitLen(_)
\* number of bits of the natural n
BitLen(n) == IF n = 0 THEN 0 ELSE 1 + BitLen(n \div 2)

\* m * 2^e lies in -2^63 .. 2^63 - 1
FitsI64(m, e) ==
    \/ BitLen(Abs(m)) + e <= I64_BITS - 1
    \/ m = -1 /\ e = I64_BITS - 1

\* the int m * 2^e converts to a finite f64 (PyFloat_AsDouble raises OverflowError otherwise)
FitsF64(m, e) == BitLen(Abs(m)) + e <= F64_MAX_EXP

\* ------------------------------------------------------------- extraction

\* The messages are those of pyo3's FromPyObject implementations, kept as pieces.
DowncastError(x, target) ==
    PyErr("TypeError", <<"'", TypeName(x), "' object cannot be converted to '", target, "'">>)

\* py_obj.extract::<bool>(): a bool only
ExtractBool(x) ==
    IF x.k = "bool" THEN Ok(x.b) ELSE Err(DowncastError(x, "PyBool"))

\* py_obj.extract::<i64>(): an int, or an object with __index__, whose value fits an i64
ExtractI64(x) ==
    IF x.k = "int" \/ (x.k = "obj" /\ x.proto = "index")
    THEN IF FitsI64(x.m, x.e)
         THEN Ok([m |-> x.m, e |-> x.e])
         ELSE Err(PyErr("OverflowError", <<"Python int too large to convert to C long">>))
    ELSE Err(PyErr("TypeError",
                   <<"'", TypeName(x), "' object cannot be interpreted as an integer">>))

\* py_obj.extract::<f64>(): PyFloat_AsDouble, which takes a float, an object with
\* __float__, and an int or an object with __index__ whose value fits an f64.
\* The ints of the model have fewer than 53 significant bits, so the conversion is exact.
ExtractF64(x) ==
    IF x.k = "float" THEN Ok(F64(x.cls, x.m, x.e))
    ELSE IF x.k = "obj" /\ x.proto = "float" THEN Ok(F64("fin", x.m, x.e))
    ELSE IF x.k = "int" \/ (x.k = "obj" /\ x.proto = "index")
    THEN IF FitsF64(x.m, x.e)
         THEN Ok(F64("fin", x.m, x.e))
         ELSE Err(PyErr("OverflowError", <<"int too large to convert to float">>))
    ELSE Err(PyErr("TypeError", <<"must be real number, not ", TypeName(x)>>))

\* py_obj.extract::<String>(): a str that encodes as UTF-8
ExtractString(x) ==
    IF x.k # "str" THEN Err(DowncastError(x, "PyString"))
    ELSE IF ~x.utf8
    THEN Err(PyErr("UnicodeEncodeError", <<"'utf-8' codec can't encode: surrogates not allowed">>))
    ELSE Ok(x.s)

\* ------------------------------------------------------- serde_json::Number

\* i.into() for an i64
NumberFromI64(n) ==
    IF n.m < 0 THEN JNumber("NegInt", n.m, n.e) ELSE JNumber("PosInt", n.m, n.e)

\* serde_json::Number::from_f64(f).unwrap_or(0.into())
NumberFromF64OrZero(f) ==
    IF f.cls = "fin" THEN JNumber("Float", f.m, f.e) ELSE JNumber("PosInt", 0, 0)

\* Variant of NumberAsI64 that also yields an integer for a Float without fraction.
NumberAsI64Integral(n) ==
    IF n.repr = "NegInt" \/ (n.repr = "PosInt" /\ FitsI64(n.m, n.e))
          \/ (n.repr = "Float" /\ n.e >= 0 /\ FitsI64(n.m, n.e))
    THEN Some([m |-> n.m, e |-> n.e])
    ELSE None

\* n.as_i64(): Some for a NegInt and for a PosInt up to i64::MAX
NumberAsI64(n) ==
    IF n.repr = "NegInt" \/ (n.repr = "PosInt" /\ FitsI64(n.m, n.e))
    THEN Some([m |-> n.m, e |-> n.e])
    ELSE None

\* n.as_f64(): always Some (exact for the numbers of the model)
NumberAsF64(n) == Some(F64("fin", n.m, n.e))

\* -------------------------------------------------------- serde_json::Map

\* The text keys of the model, in the order of String's Ord.
SortedKeys == <<"a", "b">>

KeyRank(s) == CHOOSE i \in 1..Len(SortedKeys) : SortedKeys[i] = s

RECURSIVE SortedInsert(_, _)
\* entry put at its place in a sequence of entries sorted by key
SortedInsert(entries, entry) ==
    IF entries = <<>> THEN <<entry>>
    ELSE IF KeyRank(entry[1]) < KeyRank(Head(entries)[1])
    THEN <<entry>> \o entries
    ELSE <<Head(entries)>> \o SortedInsert(Tail(entries), entry)

\* map.insert(key, value): replaces the value of a key already there
MapInsert(entries, key, value) ==
    IF \E i \in 1..Len(entries) : entries[i][1] = key
    THEN [i \in 1..Len(entries) |->
            IF entries[i][1] = key THEN <<key, value>> ELSE entries[i]]
    ELSE IF preserve_order THEN Append(entries, <<key, value>>)
    ELSE SortedInsert(entries, <<key, value>>)

\* ---------------------------------------------------- python_to_json_value

RECURSIVE python_to_json_value(_)
RECURSIVE LowerList(_, _)
RECURSIVE LowerDict(_, _)

RECURSIVE LowerListSkipping(_, _)
\* Variant of LowerList that leaves out the items that do not lower.
LowerListSkipping(items, vec) ==
    IF items = <<>> THEN Ok(JArray(vec))
    ELSE LET r == python_to_json_value(Head(items))
         IN  IF r.ok THEN LowerListSkipping(Tail(items), Append(vec, r.val))
             ELSE LowerListSkipping(Tail(items), vec)

\* for item in list.iter() { vec.push(python_to_json_value(&item)?); }
LowerList(items, vec) ==
    IF items = <<>> THEN Ok(JArray(vec))
    ELSE LET r == python_to_json_value(Head(items))
         IN  IF r.ok THEN LowerList(Tail(items), Append(vec, r.val)) ELSE r

\* for (key, value) in dict.iter() { key.extract::<String>()?; python_to_json_value(&value)?; insert }
LowerDict(entries, map) ==
    IF entries = <<>> THEN Ok(JObject(map))
    ELSE LET key_str == ExtractString(Head(entries)[1])
         IN  IF ~key_str.ok THEN key_str
             ELSE LET json_value == python_to_json_value(Head(entries)[2])
                  IN  IF ~json_value.ok THEN json_value
                      ELSE LowerDict(Tail(entries),
                                     MapInsert(map, key_str.val, json_value.val))

python_to_json_value(py_obj) ==
    IF py_obj.k = "none" THEN Ok(JNull)
    ELSE IF ExtractBool(py_obj).ok THEN Ok(JBool(ExtractBool(py_obj).val))
    ELSE IF ExtractI64(py_obj).ok THEN Ok(NumberFromI64(ExtractI64(py_obj).val))
    ELSE IF ExtractF64(py_obj).ok THEN Ok(NumberFromF64OrZero(ExtractF64(py_obj).val))
    ELSE IF ExtractString(py_obj).ok THEN Ok(JString(ExtractString(py_obj).val))
    ELSE IF py_obj.k = "list" THEN LowerList(py_obj.items, <<>>)
    ELSE IF py_obj.k = "dict" THEN LowerDict(py_obj.entries, <<>>)
    ELSE Err(UnsupportedType)

\* ---------------------------------------------------- json_value_to_python

\* Value::Number(n) => as_i64, else as_f64, else None
NumberToPython(n) ==
    IF NumberAsI64(n).some
    THEN PyInt(NumberAsI64(n).val.m, NumberAsI64(n).val.e)
    ELSE IF NumberAsF64(n).some
    THEN PyFloat(NumberAsF64(n).val.cls, NumberAsF64(n).val.m, NumberAsF64(n).val.e)
    ELSE PyNone

\* py_dict.set_item(key, value): replaces the value of a key already there
DictSetItem(entries, key, value) ==
    IF \E i \in 1..Len(entries) : entries[i][1] = key
    THEN [i \in 1..Len(entries) |->
            IF entries[i][1] = key THEN <<key, value>> ELSE entries[i]]
    ELSE Append(entries, <<key, value>>)

RECURSIVE json_value_to_python(_)
RECURSIVE LiftArray(_, _)
RECURSIVE LiftObject(_, _)

LiftArray(arr, py_list) ==
    IF arr = <<>> THEN Ok(PyList(py_list))
    ELSE LET py_item == json_value_to_python(Head(arr))
         IN  IF py_item.ok THEN LiftArray(Tail(arr), Append(py_list, py_item.val))
             ELSE py_item

LiftObject(obj, py_dict) ==
    IF obj = <<>> THEN Ok(PyDict(py_dict))
    ELSE LET py_value == json_value_to_python(Head(obj)[2])
         IN  IF py_value.ok
             THEN LiftObject(Tail(obj),
                             DictSetItem(py_dict, PyStr(Head(obj)[1], TRUE), py_value.val))
             ELSE py_value

json_value_to_python(value) ==
    CASE value.k = "Null" -> Ok(PyNone)
      [] value.k = "Bool" -> Ok(PyBool(value.b))
      [] value.k = "Number" -> Ok(NumberToPython(value))
      [] value.k = "String" -> Ok(PyStr(value.s, TRUE))
      [] value.k = "Array" -> LiftArray(value.items, <<>>)
      [] value.k = "Object" -> LiftObject(value.entries, <<>>)

\* ------------------------------------------------------------ DiffResult

\* A DiffResult: its variant v, its path and its payload p, a tuple in the order of
\* the variant's fields. A payload is a Value, an f64, a String, a Vec<usize> or a
\* TensorStats.
DiffResult(v, path, p) == [v |-> v, path |-> path, p |-> p]

RustString(s) == [k |-> "RustString", s |-> s]
RustVec(items) == [k |-> "Vec", items |-> items]
RustF64(cls, m, e) == [k |-> "f64", cls |-> cls, m |-> m, e |-> e]
TensorStats(mean, std, min, max, shape, dtype, element_count) ==
    [k |-> "TensorStats", mean |-> mean, std |-> std, min |-> min, max |-> max,
     shape |-> shape, dtype |-> dtype, element_count |-> element_count]

\* ToPyObject of the payloads that are not Values
F64ToPython(f) == PyFloat(f.cls, f.m, f.e)
StringToPython(s) == PyStr(s.s, TRUE)
VecToPython(v) == PyList([i \in 1..Len(v.items) |-> PyInt(v.items[i], 0)])

RECURSIVE SetItems(_, _)
\* py_dict.set_item(key, value)? for each (key, value) of items, in order
SetItems(py_dict, items) ==
    IF items = <<>> THEN py_dict
    ELSE SetItems(DictSetItem(py_dict, PyStr(Head(items)[1], TRUE), Head(items)[2]),
                  Tail(items))

tensor_stats_to_python(stats) ==
    Ok(PyDict(SetItems(<<>>,
        << <<"mean", F64ToPython(stats.mean)>>,
           <<"std", F64ToPython(stats.std)>>,
           <<"min", F64ToPython(stats.min)>>,
           <<"max", F64ToPython(stats.max)>>,
           <<"shape", VecToPython(stats.shape)>>,
           <<"dtype", StringToPython(stats.dtype)>>,
           <<"element_count", PyInt(stats.element_count, 0)>> >>)))

\* The payload fields of a variant, in the order diff_result_to_python sets them.
PayloadFields(v) ==
    CASE v = "Added" -> <<"value">>
      [] v = "Removed" -> <<"value">>
      [] v = "Modified" -> <<"old_value", "new_value">>
      [] v = "TypeChanged" -> <<"old_value", "new_value">>
      [] v = "TensorShapeChanged" -> <<"old_shape", "new_shape">>
      [] v = "TensorStatsChanged" -> <<"old_stats", "new_stats">>
      [] v = "TensorDataChanged" -> <<"old_mean", "new_mean">>
      [] v = "ModelArchitectureChanged" -> <<"old_architecture", "new_architecture">>
      [] v = "WeightSignificantChange" -> <<"change_magnitude">>
      [] v = "ActivationFunctionChanged" -> <<"old_activation", "new_activation">>
      [] v = "LearningRateChanged" -> <<"old_learning_rate", "new_learning_rate">>
      [] v = "OptimizerChanged" -> <<"old_optimizer", "new_optimizer">>
      [] v = "LossChange" -> <<"old_loss", "new_loss">>
      [] v = "AccuracyChange" -> <<"old_accuracy", "new_accuracy">>
      [] v = "ModelVersionChanged" -> <<"old_version", "new_version">>

\* The Python object set for one payload: json_value_to_python for a Value,
\* tensor_stats_to_python for a TensorStats, ToPyObject for the others.
PayloadToPython(payload) ==
    CASE payload.k = "f64" -> Ok(F64ToPython(payload))
      [] payload.k = "Vec" -> Ok(VecToPython(payload))
      [] payload.k = "TensorStats" -> tensor_stats_to_python(payload)
      [] payload.k = "RustString" -> Ok(StringToPython(payload))
      [] OTHER -> json_value_to_python(payload)

RECURSIVE EncodePayload(_, _, _)
\* py_dict.set_item(field, <payload as Python>?)? for each payload field, in order
EncodePayload(py_dict, fields, p) ==
    IF fields = <<>> THEN Ok(PyDict(py_dict))
    ELSE LET py_value == PayloadToPython(Head(p))
         IN  IF ~py_value.ok THEN py_value
             ELSE EncodePayload(DictSetItem(py_dict, PyStr(Head(fields), TRUE), py_value.val),
                                Tail(fields), Tail(p))

diff_result_to_python(result) ==
    EncodePayload(
        SetItems(<<>>, << <<"type", PyStr(result.v, TRUE)>>,
                          <<"path", PyStr(result.path, TRUE)>> >>),
        PayloadFields(result.v), result.p)

\* ------------------------------------------------- python_results_to_rust

\* PyErr::new::<PyValueError, _>("Missing '<name>' field")
MissingField(name) == PyErr("ValueError", <<"Missing '", name, "' field">>)

\* PyErr::new::<PyValueError, _>(format!("Invalid diff type: {}", diff_type))
InvalidDiffType(diff_type) == PyErr("ValueError", <<"Invalid diff type: ", diff_type>>)

\* dict.get_item(name)?: the value of the key name, if any
DictGetItem(dict, name) ==
    IF \E i \in 1..Len(dict.entries) : dict.entries[i][1] = PyStr(name, TRUE)
    THEN Some((CHOOSE entry \in { dict.entries[i] : i \in 1..Len(dict.entries) } :
                    entry[1] = PyStr(name, TRUE))[2])
    ELSE None

\* Variant of GetStringField that takes an absent field for the empty text.
GetStringFieldOrEmpty(dict, name) ==
    IF DictGetItem(dict, name).some
    THEN ExtractString(DictGetItem(dict, name).val)
    ELSE Ok("")

\* dict.get_item(name)?.ok_or_else(|| Missing name)?.extract::<String>()?
GetStringField(dict, name) ==
    IF DictGetItem(dict, name).some
    THEN ExtractString(DictGetItem(dict, name).val)
    ELSE Err(MissingField(name))

\* "Added" and "Removed": the field value, then its lowering
DecodeOneValue(variant, path, dict) ==
    LET value == DictGetItem(dict, "value")
    IN  IF ~value.some THEN Err(MissingField("value"))
        ELSE LET json == python_to_json_value(value.val)
             IN  IF ~json.ok THEN json
                 ELSE Ok(DiffResult(variant, path, <<json.val>>))

\* Variant of DecodeTwoValues that reads the two fields the other way round.
DecodeTwoValuesSwapped(variant, path, dict) ==
    LET old_value == DictGetItem(dict, "new_value")
        new_value == DictGetItem(dict, "old_value")
    IN  IF ~old_value.some THEN Err(MissingField("new_value"))
        ELSE IF ~new_value.some THEN Err(MissingField("old_value"))
        ELSE LET old_json == python_to_json_value(old_value.val)
                 new_json == python_to_json_value(new_value.val)
             IN  IF ~old_json.ok THEN old_json
                 ELSE IF ~new_json.ok THEN new_json
                 ELSE Ok(DiffResult(variant, path, <<old_json.val, new_json.val>>))

\* "Modified" and "TypeChanged": the fields old_value and new_value, then their lowerings
DecodeTwoValues(variant, path, dict) ==
    LET old_value == DictGetItem(dict, "old_value")
        new_value == DictGetItem(dict, "new_value")
    IN  IF ~old_value.some THEN Err(MissingField("old_value"))
        ELSE IF ~new_value.some THEN Err(MissingField("new_value"))
        ELSE LET old_json == python_to_json_value(old_value.val)
                 new_json == python_to_json_value(new_value.val)
             IN  IF ~old_json.ok THEN old_json
                 ELSE IF ~new_json.ok THEN new_json
                 ELSE Ok(DiffResult(variant, path, <<old_json.val, new_json.val>>))

\* Variant of DecodeVariant that matches the type whatever its case.
DecodeVariantAnyCase(diff_type, path, dict) ==
    CASE diff_type \in {"Added", "added"} -> DecodeOneValue("Added", path, dict)
      [] diff_type \in {"Removed", "removed"} -> DecodeOneValue("Removed", path, dict)
      [] diff_type \in {"Modified", "modified"} -> DecodeTwoValues("Modified", path, dict)
      [] diff_type \in {"TypeChanged", "typechanged"} ->
              DecodeTwoValues("TypeChanged", path, dict)
      [] OTHER -> Err(InvalidDiffType(diff_type))

\* match diff_type.as_str() { "Added" => .., "Removed" => .., "Modified" => ..,
\* "TypeChanged" => .., _ => return Err(Invalid diff type) }
DecodeVariant(diff_type, path, dict) ==
    CASE diff_type = "Added" -> DecodeOneValue("Added", path, dict)
      [] diff_type = "Removed" -> DecodeOneValue("Removed", path, dict)
      [] diff_type = "Modified" -> DecodeTwoValues("Modified", path, dict)
      [] diff_type = "TypeChanged" -> DecodeTwoValues("TypeChanged", path, dict)
      [] OTHER -> Err(InvalidDiffType(diff_type))

\* The body of the loop of python_results_to_rust for one item.
DecodeItem(item) ==
    IF item.k # "dict" THEN Err(DowncastError(item, "PyDict"))
    ELSE LET diff_type == GetStringField(item, "type")
             path == GetStringField(item, "path")
         IN  IF ~diff_type.ok THEN diff_type
             ELSE IF ~path.ok THEN path
             ELSE DecodeVariant(diff_type.val, path.val, item)

RECURSIVE DecodeItems(_, _)
\* for item in results.iter() { ...; rust_results.push(result); }
DecodeItems(items, rust_results) ==
    IF items = <<>> THEN Ok(rust_results)
    ELSE LET result == DecodeItem(Head(items))
         IN  IF ~result.ok THEN result
             ELSE DecodeItems(Tail(items), Append(rust_results, result.val))

python_results_to_rust(results) == DecodeItems(results.items, <<>>)

\* ------------------------------------------------ build_options_from_kwargs

\* DiffOptions::default(): every optional field None
DefaultOptions ==
    [epsilon |-> None, array_id_key |-> None, ignore_keys_regex |-> None,
     path_filter |-> None, output_format |-> None]

\* Patterns of the model that the regex syntax rejects.
MalformedPatterns == { "(", "a)" }

\* Regex::new(&pattern).map_err(|e| PyValueError(format!("Invalid regex: {e}")))
RegexNew(pattern) ==
    IF pattern \in MalformedPatterns
    THEN Err(PyErr("ValueError", <<"Invalid regex: ", "regex parse error: ", pattern>>))
    ELSE Ok([regex |-> pattern])

\* OutputFormat::parse_format: the three formats the documentation of diff names
ParseFormat(format) ==
    CASE format = "diffai" -> Ok("Diffai")
      [] format = "json" -> Ok("Json")
      [] format = "yaml" -> Ok("Yaml")
      [] OTHER -> Err(<<"Unknown output format: ", format>>)

\* Variant of SetEpsilon that stores a tolerance of zero when the key is absent.
SetEpsilonDefaulted(kwargs, options) ==
    LET epsilon == DictGetItem(kwargs, "epsilon")
    IN  IF ~epsilon.some THEN Ok([options EXCEPT !.epsilon = Some(F64("fin", 0, 0))])
        ELSE IF ~ExtractF64(epsilon.val).ok THEN ExtractF64(epsilon.val)
        ELSE Ok([options EXCEPT !.epsilon = Some(ExtractF64(epsilon.val).val)])

\* if let Some(epsilon) = kwargs.get_item("epsilon")? { options.epsilon = Some(extract::<f64>()?) }
SetEpsilon(kwargs, options) ==
    LET epsilon == DictGetItem(kwargs, "epsilon")
    IN  IF ~epsilon.some THEN Ok(options)
        ELSE IF ~ExtractF64(epsilon.val).ok THEN ExtractF64(epsilon.val)
        ELSE Ok([options EXCEPT !.epsilon = Some(ExtractF64(epsilon.val).val)])

SetArrayIdKey(kwargs, options) ==
    LET array_id_key == DictGetItem(kwargs, "array_id_key")
    IN  IF ~array_id_key.some THEN Ok(options)
        ELSE IF ~ExtractString(array_id_key.val).ok THEN ExtractString(array_id_key.val)
        ELSE Ok([options EXCEPT !.array_id_key = Some(ExtractString(array_id_key.val).val)])

SetIgnoreKeysRegex(kwargs, options) ==
    LET ignore_keys_regex == DictGetItem(kwargs, "ignore_keys_regex")
    IN  IF ~ignore_keys_regex.some THEN Ok(options)
        ELSE LET pattern == ExtractString(ignore_keys_regex.val)
             IN  IF ~pattern.ok THEN pattern
                 ELSE LET regex == RegexNew(pattern.val)
                      IN  IF ~regex.ok THEN regex
                          ELSE Ok([options EXCEPT !.ignore_keys_regex = Some(regex.val)])

SetPathFilter(kwargs, options) ==
    LET path_filter == DictGetItem(kwargs, "path_filter")
    IN  IF ~path_filter.some THEN Ok(options)
        ELSE IF ~ExtractString(path_filter.val).ok THEN ExtractString(path_filter.val)
        ELSE Ok([options EXCEPT !.path_filter = Some(ExtractString(path_filter.val).val)])

SetOutputFormat(kwargs, options) ==
    LET output_format == DictGetItem(kwargs, "output_format")
    IN  IF ~output_format.some THEN Ok(options)
        ELSE LET format_str == ExtractString(output_format.val)
             IN  IF ~format_str.ok THEN format_str
                 ELSE LET format == ParseFormat(format_str.val)
                      IN  IF ~format.ok
                          THEN Err(PyErr("ValueError",
                                         <<"Invalid output format: ">> \o format.err))
                          ELSE Ok([options EXCEPT !.output_format = Some(format.val)])

\* kwargs is an Option: None, or Some of a dict
build_options_from_kwargs(kwargs) ==
    IF ~kwargs.some THEN Ok(DefaultOptions)
    ELSE LET o1 == SetEpsilon(kwargs.val, DefaultOptions)
             o2 == IF o1.ok THEN SetArrayIdKey(kwargs.val, o1.val) ELSE o1
             o3 == IF o2.ok THEN SetIgnoreKeysRegex(kwargs.val, o2.val) ELSE o2
             o4 == IF o3.ok THEN SetPathFilter(kwargs.val, o3.val) ELSE o3
         IN  IF o4.ok THEN SetOutputFormat(kwargs.val, o4.val) ELSE o4

\* ------------------------------------------------- generated Python objects

\* a str holding a lone surrogate
SurrogateStr == PyStr("<lone surrogate>", FALSE)

\* The leaves handed to the converter on their own.
Leaves ==
    { PyNone, PyBool(TRUE), PyBool(FALSE),
      PyInt(0, 0), PyInt(1, 0), PyInt(-1, 0), PyInt(3, 0),
      PyInt(1, I64_BITS - 2), PyInt(-1, I64_BITS - 1),   \* 2^62 and -2^63: the ends of i64
      PyInt(1, I64_BITS - 1),                             \* 2^63: beyond i64, within f64
      PyInt(1, F64_MAX_EXP),                              \* 2^1024: beyond f64
      PyFloat("fin", 0, 0), PyFloat("fin", 1, 0), PyFloat("fin", 3, -1),
      PyFloat("fin", 1, I64_BITS - 1),
      PyFloat("nan", 0, 0), PyFloat("inf", 0, 0), PyFloat("ninf", 0, 0),
      PyStr("", TRUE), PyStr("a", TRUE), SurrogateStr,
      PyObj("none", 0, 0), PyObj("index", 1, 0), PyObj("float", 3, -1),
      PyTuple(<<>>), PyTuple(<<PyInt(1, 0)>>),
      PyDict(<< <<SurrogateStr, PyInt(1, 0)>> >>) }

\* The leaves put into containers.
CoreLeaves ==
    { PyInt(1, 0), PyFloat("fin", 1, 0), PyFloat("nan", 0, 0), PyStr("a", TRUE),
      PyObj("none", 0, 0) }

\* The keys put into dicts: two texts and an int.
DictKeys == { PyStr("a", TRUE), PyStr("b", TRUE), PyInt(1, 0) }

SeqsUpTo(S, n) == UNION { [1..len -> S] : len \in 0..n }

DictEntries(S, n) ==
    { d \in SeqsUpTo(DictKeys \X S, n) :
        \A i, j \in 1..Len(d) : i # j => d[i][1] # d[j][1] }

Containers(S, n) ==
    { PyList(items) : items \in SeqsUpTo(S, n) }
        \cup { PyDict(entries) : entries \in DictEntries(S, n) }

RECURSIVE Nested(_)
\* containers nested d deep: the innermost hold up to MaxLen leaves, the others one container
Nested(d) ==
    IF d <= 1 THEN Containers(CoreLeaves, MaxLen) ELSE Containers(Nested(d - 1), 1)

PyValues == Leaves \cup UNION { Nested(d) : d \in 1..MaxDepth }

\* ------------------------------------------------ generated Rust values

\* The numbers, texts and null put into arrays and objects.
JCore ==
    { JNumber("PosInt", 1, 0), JNumber("Float", 1, 0), JNumber("PosInt", 1, I64_BITS - 1),
      JString("a"), JNull }

JLeaves ==
    JCore \cup { JBool(TRUE), JNumber("NegInt", -1, 0), JNumber("Float", 3, -1) }

\* Entries of a serde_json::Map: distinct keys, sorted unless the build keeps insertion order.
ObjectEntries(S, n) ==
    { d \in SeqsUpTo({"a", "b"} \X S, n) :
        /\ \A i, j \in 1..Len(d) : i # j => d[i][1] # d[j][1]
        /\ preserve_order \/ \A i, j \in 1..Len(d) : i < j => KeyRank(d[i][1]) < KeyRank(d[j][1]) }

JContainers(S, n) ==
    { JArray(items) : items \in SeqsUpTo(S, n) }
        \cup { JObject(entries) : entries \in ObjectEntries(S, n) }

RECURSIVE JNested(_)
JNested(d) ==
    IF d <= 1 THEN JContainers(JCore, MaxLen) ELSE JContainers(JNested(d - 1), 1)

JValues == JLeaves \cup UNION { JNested(d) : d \in 1..MaxDepth }

Paths == { "a", "b[0].c" }

ValueVariants == { "Added", "Removed", "Modified", "TypeChanged" }

StatsSample ==
    TensorStats(RustF64("fin", 1, -1), RustF64("fin", 1, 0), RustF64("ninf", 0, 0),
                RustF64("nan", 0, 0), RustVec(<<2, 3>>), RustString("f32"), 6)

\* One or two payloads for each of the eleven variants that carry no Value.
OtherPayloads ==
    { <<"TensorShapeChanged", <<RustVec(<<2, 3>>), RustVec(<<3, 2>>)>> >>,
      <<"TensorShapeChanged", <<RustVec(<<>>), RustVec(<<1>>)>> >>,
      <<"TensorStatsChanged", <<StatsSample, StatsSample>> >>,
      <<"TensorDataChanged", <<RustF64("fin", 1, -1), RustF64("nan", 0, 0)>> >>,
      <<"ModelArchitectureChanged", <<RustString("cnn"), RustString("rnn")>> >>,
      <<"WeightSignificantChange", <<RustF64("fin", 3, -1)>> >>,
      <<"ActivationFunctionChanged", <<RustString("relu"), RustString("gelu")>> >>,
      <<"LearningRateChanged", <<RustF64("fin", 1, -10), RustF64("fin", 1, -11)>> >>,
      <<"OptimizerChanged", <<RustString("sgd"), RustString("adam")>> >>,
      <<"LossChange", <<RustF64("fin", 1, 0), RustF64("inf", 0, 0)>> >>,
      <<"AccuracyChange", <<RustF64("fin", 1, -1), RustF64("fin", 3, -2)>> >>,
      <<"ModelVersionChanged", <<RustString("1"), RustString("2")>> >> }

DiffResults ==
    { DiffResult(v, path, <<x>>) : v \in {"Added", "Removed"}, path \in Paths, x \in JValues }
        \cup { DiffResult(v, path, <<x, JNumber("PosInt", 1, 0)>>) :
                 v \in {"Modified", "TypeChanged"}, path \in Paths, x \in JValues }
        \cup { DiffResult(v, path, <<JString("a"), x>>) :
                 v \in {"Modified", "TypeChanged"}, path \in Paths, x \in JValues }
        \cup { DiffResult(o[1], path, o[2]) : o \in OtherPayloads, path \in Paths }

\* ------------------------------------- generated Python objects to decode

\* a field that is absent, or present with one of the values of S
Opt(name, S) == { <<>> } \cup { << <<PyStr(name, TRUE), v>> >> : v \in S }

TypeChoices ==
    { PyStr(t, TRUE) : t \in ValueVariants \cup {"TensorShapeChanged", "LossChange", "Bogus", "added"} }
        \cup { PyInt(5, 0) }

PathChoices == { PyStr("a", TRUE), PyInt(5, 0) }

PayloadChoices == { PyInt(1, 0), PyObj("none", 0, 0) }

HostDicts ==
    { PyDict(t \o p \o v \o o \o n \o x) :
        t \in Opt("type", TypeChoices), p \in Opt("path", PathChoices),
        v \in Opt("value", PayloadChoices), o \in Opt("old_value", PayloadChoices),
        n \in Opt("new_value", PayloadChoices), x \in Opt("note", {PyStr("a", TRUE)}) }

GoodItem ==
    PyDict(<< <<PyStr("type", TRUE), PyStr("Added", TRUE)>>,
              <<PyStr("path", TRUE), PyStr("a", TRUE)>>,
              <<PyStr("value", TRUE), PyInt(1, 0)>> >>)

HostLists ==
    { PyList(<<d>>) : d \in HostDicts }
        \cup { PyList(<<>>), PyList(<<PyNone>>), PyList(<<GoodItem, GoodItem>>),
               PyList(<<GoodItem, PyNone>>), PyList(<<PyNone, GoodItem>>) }

\* ------------------------------------------------ the converter, step by step

ConverterIdle ==
    /\ cv_pc = "idle"
    /\ cv_in = PyNone
    /\ cv_lowered = Pending
    /\ cv_lifted = Pending

CodecIdle ==
    /\ cd_pc = "idle"
    /\ cd_result = Pending
    /\ cd_encoded = Pending
    /\ cd_list = Pending
    /\ cd_decoded = Pending
    /\ cd_reencoded = Pending

OptionsIdle ==
    /\ op_pc = "idle"
    /\ op_kwargs = None
    /\ op_extra = <<>>
    /\ op_built = Pending
    /\ op_rebuilt = Pending

CallLocalsUnset ==
    /\ l_old_json = Pending
    /\ l_new_json = Pending
    /\ l_options = Pending
    /\ l_results = Pending
    /\ l_py_results = <<>>
    /\ l_output_format = Pending
    /\ call_ret = Pending
    /\ call_log = <<>>
    /\ host_steps = 0

CallIdle ==
    /\ call_fn = "none"
    /\ call_args = Pending
    /\ call_pc = "idle"
    /\ gil = "free"
    /\ CallLocalsUnset

InitConverter ==
    /\ preserve_order \in BOOLEAN
    /\ cv_pc = "start"
    /\ cv_in \in PyValues
    /\ cv_lowered = Pending
    /\ cv_lifted = Pending
    /\ CodecIdle
    /\ OptionsIdle
    /\ CallIdle

\* python_to_json_value(cv_in)
Lower ==
    /\ cv_pc = "start"
    /\ cv_lowered' = python_to_json_value(cv_in)
    /\ cv_pc' = "lowered"
    /\ UNCHANGED <<preserve_order, cv_in, cv_lifted, cdVars, opVars, callVars>>

\* json_value_to_python of the lowered value
Lift ==
    /\ cv_pc = "lowered"
    /\ cv_lowered.ok
    /\ cv_lifted' = json_value_to_python(cv_lowered.val)
    /\ cv_pc' = "lifted"
    /\ UNCHANGED <<preserve_order, cv_in, cv_lowered, cdVars, opVars, callVars>>

NextConverter == Lower \/ Lift

SpecConverter == InitConverter /\ [][NextConverter]_vars

\* ---------------------------------------------------- the codec, step by step

InitCodec ==
    /\ preserve_order \in BOOLEAN
    /\ ConverterIdle
    /\ OptionsIdle
    /\ CallIdle
    /\ cd_encoded = Pending
    /\ cd_decoded = Pending
    /\ cd_reencoded = Pending
    /\ \/ cd_pc = "start" /\ cd_result \in DiffResults /\ cd_list = Pending
       \/ cd_pc = "given" /\ cd_result = Pending /\ cd_list \in HostLists

\* diff_result_to_python(cd_result), the object put into a list of its own
Encode ==
    /\ cd_pc = "start"
    /\ cd_encoded' = diff_result_to_python(cd_result)
    /\ cd_list' = IF cd_encoded'.ok THEN PyList(<<cd_encoded'.val>>) ELSE Pending
    /\ cd_pc' = "encoded"
    /\ UNCHANGED <<preserve_order, cvVars, opVars, callVars, cd_result, cd_decoded, cd_reencoded>>

\* python_results_to_rust(cd_list)
Decode ==
    /\ cd_pc \in {"encoded", "given"}
    /\ cd_list # Pending
    /\ cd_decoded' = python_results_to_rust(cd_list)
    /\ cd_pc' = "decoded"
    /\ UNCHANGED <<preserve_order, cvVars, opVars, callVars, cd_result, cd_encoded, cd_list, cd_reencoded>>

\* diff_result_to_python of the decoded result
ReEncode ==
    /\ cd_pc = "decoded"
    /\ cd_result # Pending
    /\ cd_decoded.ok
    /\ cd_reencoded' = diff_result_to_python(cd_decoded.val[1])
    /\ cd_pc' = "reencoded"
    /\ UNCHANGED <<preserve_order, cvVars, opVars, callVars, cd_result, cd_encoded, cd_list, cd_decoded>>

NextCodec == Encode \/ Decode \/ ReEncode

SpecCodec == InitCodec /\ [][NextCodec]_vars

\* ------------------------------------------ the options builder, step by step

EpsilonChoices == { PyFloat("fin", 1, -1), PyInt(1, 0), PyStr("0.5", TRUE), PyNone }
TextChoices(S) == { PyStr(t, TRUE) : t \in S } \cup { PyInt(5, 0) }

\* The dicts that hold recognized keys only.
Configs ==
    { PyDict(e \o a \o i \o p \o o) :
        e \in Opt("epsilon", EpsilonChoices),
        a \in Opt("array_id_key", TextChoices({"id"})),
        i \in Opt("ignore_keys_regex", TextChoices({"^a", "("})),
        p \in Opt("path_filter", TextChoices({"a"})),
        o \in Opt("output_format", TextChoices({"json", "xml"})) }

\* Entries with keys the builder does not know.
ExtraEntries ==
    { <<>>,
      << <<PyStr("verbose", TRUE), PyBool(TRUE)>> >>,
      << <<PyStr("epsilons", TRUE), PyStr("x", TRUE)>>, <<PyStr("Path_Filter", TRUE), PyInt(5, 0)>> >> }

\* kwargs with the entries extra put before its own; a call without keyword
\* arguments becomes a call with the extra ones only
WithExtra(kwargs, extra) ==
    IF extra = <<>> THEN kwargs
    ELSE IF kwargs.some THEN Some(PyDict(extra \o kwargs.val.entries))
    ELSE Some(PyDict(extra))

InitOptions ==
    /\ preserve_order \in BOOLEAN
    /\ ConverterIdle
    /\ CodecIdle
    /\ CallIdle
    /\ op_pc = "start"
    /\ op_kwargs \in { None } \cup { Some(c) : c \in Configs }
    /\ op_extra \in ExtraEntries
    /\ op_built = Pending
    /\ op_rebuilt = Pending

\* build_options_from_kwargs(op_kwargs)
Build ==
    /\ op_pc = "start"
    /\ op_built' = build_options_from_kwargs(op_kwargs)
    /\ op_pc' = "built"
    /\ UNCHANGED <<preserve_order, cvVars, cdVars, callVars, op_kwargs, op_extra, op_rebuilt>>

\* build_options_from_kwargs of the same keyword arguments and the unrecognized ones
Rebuild ==
    /\ op_pc = "built"
    /\ op_rebuilt' = build_options_from_kwargs(WithExtra(op_kwargs, op_extra))
    /\ op_pc' = "rebuilt"
    /\ UNCHANGED <<preserve_order, cvVars, cdVars, callVars, op_kwargs, op_extra, op_built>>

NextOptions == Build \/ Rebuild

SpecOptions == InitOptions /\ [][NextOptions]_vars

\* ------------------------------------------------- the entry points, step by step

\* Variant of DiffSteps that builds the options before it lowers the inputs.
DiffStepsOptionsFirst == <<"build_options", "lower_old", "lower_new", "core", "encode">>

\* The statements of diff, in order.
DiffSteps == <<"lower_old", "lower_new", "build_options", "core", "encode">>

\* The statements of diff_paths, in order.
DiffPathsSteps == <<"build_options", "core", "encode">>

\* The statements of format_output, in order.
FormatOutputSteps == <<"decode", "parse_format", "core">>

StepsOf(fn) ==
    CASE fn = "diff" -> DiffSteps
      [] fn = "diff_paths" -> DiffPathsSteps
      [] fn = "format_output" -> FormatOutputSteps

\* The statement after step in fn ("done" after the last).
NextPc(fn, step) ==
    LET steps == StepsOf(fn)
        i == CHOOSE j \in 1..Len(steps) : steps[j] = step
    IN  IF i < Len(steps) THEN steps[i + 1] ELSE "done"

\* Holder of the interpreter lock while core_diff, core_diff_paths or
\* core_format_output runs: the entry points call them without py.allow_threads.
GilInsideCore == "caller"

\* Variant of EncodeFailed that leaves the failed result out and goes on with the loop.
EncodeFailedSkips(err) == [pc |-> "encode", ret |-> Pending, gil |-> "caller"]

\* `?` on a failed diff_result_to_python or append in the loop over results:
\* the call returns the error; the list built so far is dropped.
EncodeFailed(err) == [pc |-> "done", ret |-> Err(err), gil |-> "free"]

LogEntry(step, idx, ok) == [step |-> step, idx |-> idx, ok |-> ok]

D1 == PyDict(<< <<PyStr("a", TRUE), PyInt(1, 0)>> >>)
D2 == PyDict(<< <<PyStr("a", TRUE), PyInt(1, 1)>> >>)

\* old and new of the calls of diff
CallValues == { D1, D2, PyObj("none", 0, 0), PyList(<<PyTuple(<<>>)>>) }

\* kwargs of the calls of diff and diff_paths
CallKwargs ==
    { None, Some(PyDict(<<>>)),
      Some(PyDict(<< <<PyStr("epsilon", TRUE), PyFloat("fin", 1, -1)>> >>)),
      Some(PyDict(<< <<PyStr("ignore_keys_regex", TRUE), PyStr("(", TRUE)>> >>)),
      Some(PyDict(<< <<PyStr("output_format", TRUE), PyInt(5, 0)>> >>)) }

BadTypeItem ==
    PyDict(<< <<PyStr("type", TRUE), PyStr("LossChange", TRUE)>>,
              <<PyStr("path", TRUE), PyStr("a", TRUE)>> >>)

\* results of the calls of format_output
CallLists ==
    { PyList(<<>>), PyList(<<GoodItem>>), PyList(<<GoodItem, GoodItem>>),
      PyList(<<GoodItem, BadTypeItem>>), PyList(<<PyNone>>) }

Calls ==
    { [fn |-> "diff", args |-> [old |-> old, new |-> new, kwargs |-> kwargs]] :
        old \in CallValues, new \in CallValues, kwargs \in CallKwargs }
    \cup { [fn |-> "diff_paths",
            args |-> [old_path |-> "old.safetensors", new_path |-> new_path, kwargs |-> kwargs]] :
             new_path \in {"new.safetensors", "missing.pt"}, kwargs \in CallKwargs }
    \cup { [fn |-> "format_output", args |-> [results |-> list, format |-> format]] :
             list \in CallLists, format \in {"json", "xml"} }

\* What the diff core may hand back.
CoreResults ==
    { DiffResult("Modified", "a", <<JNumber("PosInt", 1, 0), JNumber("PosInt", 1, 1)>>),
      DiffResult("Removed", "[2]", <<JNumber("PosInt", 3, 0)>>),
      DiffResult("TensorShapeChanged", "w", <<RustVec(<<2, 3>>), RustVec(<<3, 2>>)>>) }

\* core_diff and core_diff_paths: an error, or a sequence of results
CoreOutcomes ==
    { Err(<<"core failure">>) } \cup { Ok(rs) : rs \in SeqsUpTo(CoreResults, MaxResults) }

\* core_format_output: an error, or the text
FormatOutcomes == { Err(<<"render failure">>), Ok("text") }

InitCalls ==
    /\ preserve_order \in BOOLEAN
    /\ ConverterIdle
    /\ CodecIdle
    /\ OptionsIdle
    /\ \E c \in Calls : call_fn = c.fn /\ call_args = c.args
    /\ call_pc = "ready"
    /\ gil = "free"
    /\ CallLocalsUnset

\* The interpreter runs the call: the calling thread holds the lock from here on.
Enter ==
    /\ call_pc = "ready"
    /\ gil = "free"
    /\ gil' = "caller"
    /\ call_pc' = StepsOf(call_fn)[1]
    /\ UNCHANGED <<preserve_order, cvVars, cdVars, opVars, call_fn, call_args, l_old_json,
                   l_new_json, l_options, l_results, l_py_results, l_output_format, call_ret,
                   call_log, host_steps>>

\* The step went through: on to the next statement.
Advance(step) ==
    /\ call_pc' = NextPc(call_fn, step)
    /\ call_ret' = call_ret
    /\ gil' = gil

\* `?` on an Err: the call returns the exception.
Fail(err) ==
    /\ call_pc' = "done"
    /\ call_ret' = Err(err)
    /\ gil' = "free"

\* let old_json = python_to_json_value(old)?;
LowerOld ==
    /\ call_pc = "lower_old"
    /\ LET r == python_to_json_value(call_args.old)
       IN  /\ call_log' = Append(call_log, LogEntry("lower_old", 0, r.ok))
           /\ IF r.ok THEN l_old_json' = r.val /\ Advance("lower_old")
              ELSE l_old_json' = l_old_json /\ Fail(r.err)
    /\ UNCHANGED <<preserve_order, cvVars, cdVars, opVars, call_fn, call_args, l_new_json,
                   l_options, l_results, l_py_results, l_output_format, host_steps>>

\* let new_json = python_to_json_value(new)?;
LowerNew ==
    /\ call_pc = "lower_new"
    /\ LET r == python_to_json_value(call_args.new)
       IN  /\ call_log' = Append(call_log, LogEntry("lower_new", 0, r.ok))
           /\ IF r.ok THEN l_new_json' = r.val /\ Advance("lower_new")
              ELSE l_new_json' = l_new_json /\ Fail(r.err)
    /\ UNCHANGED <<preserve_order, cvVars, cdVars, opVars, call_fn, call_args, l_old_json,
                   l_options, l_results, l_py_results, l_output_format, host_steps>>

\* let options = build_options_from_kwargs(kwargs)?;
BuildOptions ==
    /\ call_pc = "build_options"
    /\ LET r == build_options_from_kwargs(call_args.kwargs)
       IN  /\ call_log' = Append(call_log, LogEntry("build_options", 0, r.ok))
           /\ IF r.ok THEN l_options' = r.val /\ Advance("build_options")
              ELSE l_options' = l_options /\ Fail(r.err)
    /\ UNCHANGED <<preserve_order, cvVars, cdVars, opVars, call_fn, call_args, l_old_json,
                   l_new_json, l_results, l_py_results, l_output_format, host_steps>>

\* core_diff, core_diff_paths or core_format_output is entered
CoreBegin ==
    /\ call_pc = "core"
    /\ call_pc' = "in_core"
    /\ gil' = GilInsideCore
    /\ UNCHANGED <<preserve_order, cvVars, cdVars, opVars, call_fn, call_args, l_old_json,
                   l_new_json, l_options, l_results, l_py_results, l_output_format, call_ret,
                   call_log, host_steps>>

\* core_diff(..) or core_diff_paths(..) returns; .map_err(|e| PyRuntimeError("Diff error: {e}"))?
CoreDiffEnd ==
    /\ call_pc = "in_core"
    /\ call_fn \in {"diff", "diff_paths"}
    /\ \E outcome \in CoreOutcomes :
          /\ call_log' = Append(call_log, LogEntry("core", 0, outcome.ok))
          /\ IF outcome.ok
             THEN /\ l_results' = outcome.val
                  /\ call_pc' = NextPc(call_fn, "core")
                  /\ call_ret' = call_ret
                  /\ gil' = "caller"
             ELSE /\ l_results' = l_results
                  /\ Fail(PyErr("RuntimeError", <<"Diff error: ">> \o outcome.err))
    /\ UNCHANGED <<preserve_order, cvVars, cdVars, opVars, call_fn, call_args, l_old_json,
                   l_new_json, l_options, l_py_results, l_output_format, host_steps>>

\* for result in results { py_results.append(diff_result_to_python(py, &result)?)?; }
\* one turn of the loop; creating or appending a Python object may fail in the host
EncodeResult ==
    /\ call_pc = "encode"
    /\ l_results # <<>>
    /\ \E host_ok \in BOOLEAN :
          LET r == IF host_ok THEN diff_result_to_python(Head(l_results))
                   ELSE Err(PyErr("MemoryError", <<>>))
          IN  /\ call_log' = Append(call_log, LogEntry("encode", Len(l_py_results) + 1, r.ok))
              /\ l_results' = Tail(l_results)
              /\ IF r.ok
                 THEN /\ l_py_results' = Append(l_py_results, r.val)
                      /\ UNCHANGED <<call_pc, call_ret, gil>>
                 ELSE /\ l_py_results' = l_py_results
                      /\ call_pc' = EncodeFailed(r.err).pc
                      /\ call_ret' = EncodeFailed(r.err).ret
                      /\ gil' = EncodeFailed(r.err).gil
    /\ UNCHANGED <<preserve_order, cvVars, cdVars, opVars, call_fn, call_args, l_old_json,
                   l_new_json, l_options, l_output_format, host_steps>>

\* Ok(py_results.into())
ReturnResults ==
    /\ call_pc = "encode"
    /\ l_results = <<>>
    /\ call_ret' = Ok(PyList(l_py_results))
    /\ call_pc' = "done"
    /\ gil' = "free"
    /\ UNCHANGED <<preserve_order, cvVars, cdVars, opVars, call_fn, call_args, l_old_json,
                   l_new_json, l_options, l_results, l_py_results, l_output_format, call_log,
                   host_steps>>

\* let rust_results = python_results_to_rust(results)?;
DecodeResults ==
    /\ call_pc = "decode"
    /\ LET r == python_results_to_rust(call_args.results)
       IN  /\ call_log' = Append(call_log, LogEntry("decode", 0, r.ok))
           /\ IF r.ok THEN l_results' = r.val /\ Advance("decode")
              ELSE l_results' = l_results /\ Fail(r.err)
    /\ UNCHANGED <<preserve_order, cvVars, cdVars, opVars, call_fn, call_args, l_old_json,
                   l_new_json, l_options, l_py_results, l_output_format, host_steps>>

\* OutputFormat::parse_format(format).map_err(|e| PyValueError("Invalid format: {e}"))?
ParseFormatArg ==
    /\ call_pc = "parse_format"
    /\ LET r == ParseFormat(call_args.format)
       IN  /\ call_log' = Append(call_log, LogEntry("parse_format", 0, r.ok))
           /\ IF r.ok THEN l_output_format' = r.val /\ Advance("parse_format")
              ELSE /\ l_output_format' = l_output_format
                   /\ Fail(PyErr("ValueError", <<"Invalid format: ">> \o r.err))
    /\ UNCHANGED <<preserve_order, cvVars, cdVars, opVars, call_fn, call_args, l_old_json,
                   l_new_json, l_options, l_results, l_py_results, host_steps>>

\* core_format_output(..) returns; .map_err(|e| PyRuntimeError("Format error: {e}"))
CoreFormatEnd ==
    /\ call_pc = "in_core"
    /\ call_fn = "format_output"
    /\ \E outcome \in FormatOutcomes :
          /\ call_log' = Append(call_log, LogEntry("core", 0, outcome.ok))
          /\ call_ret' = IF outcome.ok THEN Ok(PyStr(outcome.val, TRUE))
                         ELSE Err(PyErr("RuntimeError", <<"Format error: ">> \o outcome.err))
    /\ call_pc' = "done"
    /\ gil' = "free"
    /\ UNCHANGED <<preserve_order, cvVars, cdVars, opVars, call_fn, call_args, l_old_json,
                   l_new_json, l_options, l_results, l_py_results, l_output_format, host_steps>>

\* Another Python thread takes the interpreter lock, runs a step and gives it back.
HostThreadStep ==
    /\ gil = "free"
    /\ host_steps < MaxHostSteps
    /\ host_steps' = host_steps + 1
    /\ UNCHANGED <<preserve_order, cvVars, cdVars, opVars, call_fn, call_args, call_pc,
                   l_old_json, l_new_json, l_options, l_results, l_py_results,
                   l_output_format, call_ret, call_log, gil>>

NextCalls ==
    \/ Enter
    \/ LowerOld
    \/ LowerNew
    \/ BuildOptions
    \/ CoreBegin
    \/ CoreDiffEnd
    \/ EncodeResult
    \/ ReturnResults
    \/ DecodeResults
    \/ ParseFormatArg
    \/ CoreFormatEnd
    \/ HostThreadStep

SpecCalls == InitCalls /\ [][NextCalls]_vars

\* ===================================================================== claims

\* ---- vocabulary of the claims

RECURSIVE StructEq(_, _)
\* Two Python objects are equal in structure: the same kind at every place, lists equal
\* item by item, dicts equal key by key whatever the order of their entries.
StructEq(a, b) ==
    IF a.k # b.k THEN FALSE
    ELSE IF a.k \in {"list", "tuple"}
    THEN /\ Len(a.items) = Len(b.items)
         /\ \A i \in 1..Len(a.items) : StructEq(a.items[i], b.items[i])
    ELSE IF a.k = "dict"
    THEN /\ Len(a.entries) = Len(b.entries)
         /\ \A i \in 1..Len(a.entries) : \E j \in 1..Len(b.entries) :
                /\ a.entries[i][1] = b.entries[j][1]
                /\ StructEq(a.entries[i][2], b.entries[j][2])
    ELSE a = b

RECURSIVE BuiltOver(_, _)
\* x is a leaf of the set leaves, or a list or a dict with text keys built of such values
BuiltOver(x, leaves) ==
    IF x.k = "list" THEN \A i \in 1..Len(x.items) : BuiltOver(x.items[i], leaves)
    ELSE IF x.k = "dict"
    THEN \A i \in 1..Len(x.entries) :
            /\ x.entries[i][1].k = "str"
            /\ x.entries[i][1] \in leaves
            /\ BuiltOver(x.entries[i][2], leaves)
    ELSE x \in leaves

AllLeaves == Leaves \cup CoreLeaves \cup DictKeys

\* null, bool, int within 64 bits signed, float, text
SupportedLeaves ==
    { l \in AllLeaves :
        \/ l.k \in {"none", "bool", "float"}
        \/ l.k = "str" /\ l.utf8
        \/ l.k = "int" /\ FitsI64(l.m, l.e) }

\* the same, the floats finite
FiniteLeaves == { l \in SupportedLeaves : l.k = "float" => l.cls = "fin" }

\* the leaves one of the extractions of python_to_json_value takes
LowerableLeaves ==
    { l \in AllLeaves :
        \/ l.k \in {"none", "bool", "float"}
        \/ l.k = "str" /\ l.utf8
        \/ l.k = "int" /\ FitsF64(l.m, l.e)
        \/ l.k = "obj" /\ l.proto = "index" /\ FitsF64(l.m, l.e)
        \/ l.k = "obj" /\ l.proto = "float" }

RECURSIVE HasBadKey(_)
\* some dict in x has a key that is not a text with a UTF-8 encoding
HasBadKey(x) ==
    IF x.k = "list" THEN \E i \in 1..Len(x.items) : HasBadKey(x.items[i])
    ELSE IF x.k = "dict"
    THEN \E i \in 1..Len(x.entries) :
            \/ x.entries[i][1].k # "str"
            \/ ~x.entries[i][1].utf8
            \/ HasBadKey(x.entries[i][2])
    ELSE FALSE

RECURSIVE HasForeignShape(_)
\* x is, or holds at some depth, an object of another class or a dict with a key that is no text
HasForeignShape(x) ==
    IF x.k = "list" THEN \E i \in 1..Len(x.items) : HasForeignShape(x.items[i])
    ELSE IF x.k = "dict"
    THEN \E i \in 1..Len(x.entries) :
            \/ x.entries[i][1].k # "str"
            \/ HasForeignShape(x.entries[i][2])
    ELSE x.k = "obj"

UnsupportedTypeError == [exc |-> "TypeError", msg |-> <<"Unsupported Python type">>]
MissingFieldError(name) == [exc |-> "ValueError", msg |-> <<"Missing '", name, "' field">>]
InvalidDiffTypeError(t) == [exc |-> "ValueError", msg |-> <<"Invalid diff type: ", t>>]

IsInvalidDiffType(r) ==
    /\ ~r.ok
    /\ r.err.exc = "ValueError"
    /\ r.err.msg[1] = "Invalid diff type: "

IsMissing(r, name) == r = [ok |-> FALSE, err |-> MissingFieldError(name)]

IsText(x) == x.k = "str" /\ x.utf8

HasField(dict, name) ==
    \E i \in 1..Len(dict.entries) : dict.entries[i][1] = PyStr(name, TRUE)

FieldOf(dict, name) ==
    (CHOOSE entry \in { dict.entries[i] : i \in 1..Len(dict.entries) } :
        entry[1] = PyStr(name, TRUE))[2]

\* the list being decoded holds one dict, TheItem
TheItem == cd_list.items[1]
OneDict == cd_list # Pending /\ Len(cd_list.items) = 1 /\ TheItem.k = "dict"

TypeIs(S) ==
    /\ HasField(TheItem, "type")
    /\ IsText(FieldOf(TheItem, "type"))
    /\ FieldOf(TheItem, "type").s \in S

PathIsText == HasField(TheItem, "path") /\ IsText(FieldOf(TheItem, "path"))

\* ---- C1

RoundTrip(leaves) ==
    BuiltOver(cv_in, leaves) =>
        /\ cv_pc = "lowered" => cv_lowered.ok
        /\ cv_pc = "lifted" => cv_lifted.ok /\ StructEq(cv_lifted.val, cv_in)

\* C1, as claimed: for every value built of null, bool, 64-bit int, float, text, list and
\* dict with text keys, lowering succeeds and lifting the lowered value succeeds and gives
\* a value equal in structure, ints as ints and floats as floats.
C1_RoundTripAnyFloat == RoundTrip(SupportedLeaves)

\* C1, amended: the same for the values whose floats are all finite (a NaN or an infinity
\* is lowered to the integer 0 and comes back as the int 0).
C1_RoundTripFinite == RoundTrip(FiniteLeaves)

C1_Witness ==
    /\ cv_pc = "lifted"
    /\ BuiltOver(cv_in, FiniteLeaves)
    /\ ~preserve_order
    /\ cv_in.k = "dict"
    /\ Len(cv_in.entries) = 2
    /\ cv_in.entries[1][1].s = "b"
    /\ cv_in.entries[1][2] = PyFloat("fin", 1, 0)
    /\ cv_in.entries[2][2] = PyInt(1, 0)

\* ---- C6

\* C6, as claimed: lowering fails with the bare "Unsupported Python type" error for every
\* value that is or holds an object of another class or a dict with a key that is no text,
\* and succeeds for every value built of the supported shapes.
C6_UnsupportedAlways ==
    cv_pc # "start" =>
        /\ BuiltOver(cv_in, SupportedLeaves) => cv_lowered.ok
        /\ HasForeignShape(cv_in) => cv_lowered = [ok |-> FALSE, err |-> UnsupportedTypeError]

\* C6, amended: lowering succeeds exactly for the values built, by lists and dicts with
\* UTF-8 text keys, of the leaves an extraction takes (None, bool, an int or an object with
\* __index__ within the range of f64, float, an object with __float__, UTF-8 text); a
\* failure returns the error alone, no partly lowered value; the error is the bare
\* "Unsupported Python type" unless a dict has a key that is no UTF-8 text, and any other
\* error is the TypeError or UnicodeEncodeError of extracting such a key.
C6_UnsupportedOrKeyError ==
    cv_pc # "start" =>
        /\ cv_lowered.ok <=> BuiltOver(cv_in, LowerableLeaves)
        /\ ~cv_lowered.ok => DOMAIN cv_lowered = {"ok", "err"}
        /\ ~cv_lowered.ok /\ ~HasBadKey(cv_in) => cv_lowered.err = UnsupportedTypeError
        /\ ~cv_lowered.ok /\ cv_lowered.err # UnsupportedTypeError =>
              /\ HasBadKey(cv_in)
              /\ cv_lowered.err.exc \in {"TypeError", "UnicodeEncodeError"}

C6_Witness ==
    /\ cv_pc = "lowered"
    /\ cv_in.k = "dict"
    /\ Len(cv_in.entries) = 1
    /\ cv_in.entries[1][1] = PyStr("a", TRUE)
    /\ cv_in.entries[1][2] = PyList(<<PyInt(1, 0), PyObj("none", 0, 0)>>)
    /\ cv_lowered = [ok |-> FALSE, err |-> UnsupportedTypeError]

\* ---- C2

\* decoding the encoding of a result of one of the eleven other variants fails with
\* "Invalid diff type: <its type>"
EncodedOtherVariantRejected ==
    cd_pc \in {"decoded", "reencoded"} /\ cd_result # Pending /\ cd_result.v \notin ValueVariants
        => cd_decoded = [ok |-> FALSE, err |-> InvalidDiffTypeError(cd_result.v)]

\* C2, as claimed: ... and for every object with a "type" and a "path" field, decoding
\* fails with the invalid-type error exactly when the type text is not one of the four.
C2_InvalidTypeAnyPath ==
    /\ EncodedOtherVariantRejected
    /\ cd_pc = "decoded" /\ OneDict /\ HasField(TheItem, "type") /\ HasField(TheItem, "path")
          /\ IsText(FieldOf(TheItem, "type"))
        => (IsInvalidDiffType(cd_decoded) <=> FieldOf(TheItem, "type").s \notin ValueVariants)

\* C2, amended: ... and for every object whose "type" and "path" fields are both text,
\* decoding fails with the invalid-type error, carrying the type text, exactly when the
\* type text is not one of the four.
C2_InvalidTypeTextPath ==
    /\ EncodedOtherVariantRejected
    /\ cd_pc = "decoded" /\ OneDict /\ TypeIs(STRING) /\ PathIsText
        => /\ IsInvalidDiffType(cd_decoded) <=> FieldOf(TheItem, "type").s \notin ValueVariants
           /\ IsInvalidDiffType(cd_decoded)
                => cd_decoded.err = InvalidDiffTypeError(FieldOf(TheItem, "type").s)

C2_Witness ==
    /\ cd_pc = "decoded"
    /\ cd_result # Pending
    /\ cd_result.v = "TensorStatsChanged"
    /\ cd_decoded = [ok |-> FALSE, err |-> InvalidDiffTypeError("TensorStatsChanged")]

\* ---- C3

\* C3: for every Added, Removed, Modified or TypeChanged result, encoding succeeds,
\* decoding the encoding succeeds with one result, and encoding that result gives an
\* object equal in structure to the first encoding.
C3_EncodeDecodeEncode ==
    cd_result # Pending /\ cd_result.v \in ValueVariants =>
        /\ cd_pc # "start" => cd_encoded.ok
        /\ cd_pc \in {"decoded", "reencoded"} => cd_decoded.ok /\ Len(cd_decoded.val) = 1
        /\ cd_pc = "reencoded" => cd_reencoded.ok /\ StructEq(cd_reencoded.val, cd_encoded.val)

C3_Witness ==
    /\ cd_pc = "reencoded"
    /\ cd_result.v = "Modified"
    /\ cd_result.p[1].k = "Object"
    /\ Len(cd_result.p[1].entries) = 2
    /\ cd_result.p[1].entries[1][2] = JNumber("PosInt", 1, I64_BITS - 1)
    /\ cd_result.p[1].entries[2][2] = JNumber("Float", 1, 0)
    /\ StructEq(cd_reencoded.val, cd_encoded.val)

\* ---- C7

FieldNames == {"type", "path", "value", "old_value", "new_value"}

\* what C7 says of "type" and of the payload fields, and that a field reported missing is absent
MissingTypeAndPayload ==
    /\ ~HasField(TheItem, "type") => IsMissing(cd_decoded, "type")
    /\ TypeIs({"Added", "Removed"}) /\ PathIsText /\ ~HasField(TheItem, "value")
          => IsMissing(cd_decoded, "value")
    /\ TypeIs({"Modified", "TypeChanged"}) /\ PathIsText /\ ~HasField(TheItem, "old_value")
          => IsMissing(cd_decoded, "old_value")
    /\ TypeIs({"Modified", "TypeChanged"}) /\ PathIsText /\ HasField(TheItem, "old_value")
          /\ ~HasField(TheItem, "new_value")
          => IsMissing(cd_decoded, "new_value")
    /\ \A name \in FieldNames : IsMissing(cd_decoded, name) => ~HasField(TheItem, name)
    /\ ~cd_decoded.ok /\ cd_decoded.err.exc = "ValueError" /\ cd_decoded.err.msg[1] = "Missing '"
          => \E name \in FieldNames : IsMissing(cd_decoded, name)

\* C7, as claimed: ... and an object that has a "type" field and no "path" field fails
\* with Missing 'path', whatever its other fields are.
C7_MissingPathAnyType ==
    cd_pc = "decoded" /\ cd_result = Pending /\ OneDict =>
        /\ MissingTypeAndPayload
        /\ HasField(TheItem, "type") /\ ~HasField(TheItem, "path")
              => IsMissing(cd_decoded, "path")

\* C7, amended: ... and an object whose "type" field is text and that has no "path" field
\* fails with Missing 'path' (a "type" that is no text fails first, with its extraction error).
C7_MissingPathTextType ==
    cd_pc = "decoded" /\ cd_result = Pending /\ OneDict =>
        /\ MissingTypeAndPayload
        /\ TypeIs(STRING) /\ ~HasField(TheItem, "path") => IsMissing(cd_decoded, "path")

C7_Witness ==
    /\ cd_pc = "decoded"
    /\ cd_result = Pending
    /\ OneDict
    /\ TypeIs({"TypeChanged"})
    /\ PathIsText
    /\ HasField(TheItem, "old_value")
    /\ ~HasField(TheItem, "new_value")
    /\ IsMissing(cd_decoded, "new_value")

\* ---- C5

RecognizedKeys == {"epsilon", "array_id_key", "ignore_keys_regex", "path_filter", "output_format"}

KwargsHas(kwargs, key) ==
    kwargs.some /\ \E i \in 1..Len(kwargs.val.entries) : kwargs.val.entries[i][1] = PyStr(key, TRUE)

ValueOf(kwargs, key) ==
    (CHOOSE entry \in { kwargs.val.entries[i] : i \in 1..Len(kwargs.val.entries) } :
        entry[1] = PyStr(key, TRUE))[2]

AllEmpty == [key \in RecognizedKeys |-> [some |-> FALSE]]

\* C5: without keyword arguments, or with none, the options have every field empty; a
\* field of the options built is set exactly when its key is present; and the call with
\* unrecognized keys added ends as the call without them, in its options or in its error.
C5_OnlyRecognizedKeys ==
    /\ op_pc \in {"built", "rebuilt"} =>
          /\ (~op_kwargs.some \/ op_kwargs.val.entries = <<>>)
                => op_built = [ok |-> TRUE, val |-> AllEmpty]
          /\ op_built.ok =>
                \A key \in RecognizedKeys : op_built.val[key].some <=> KwargsHas(op_kwargs, key)
    /\ op_pc = "rebuilt" => op_rebuilt = op_built

C5_Witness ==
    /\ op_pc = "rebuilt"
    /\ Len(op_extra) = 2
    /\ op_built.ok
    /\ op_built.val.epsilon.some
    /\ op_built.val.output_format.some
    /\ ~op_built.val.path_filter.some
    /\ op_rebuilt = op_built

\* ---- C10

\* the value is of another type than the one the key takes
WrongType(key, value) ==
    IF key = "epsilon" THEN value.k \notin {"float", "int"} ELSE value.k # "str"

OnlyKey(kwargs, key) ==
    kwargs.some /\ Len(kwargs.val.entries) = 1 /\ KwargsHas(kwargs, key)

\* the message of the error holds the key
NamesKey(err, key) == \E i \in 1..Len(err.msg) : err.msg[i] = key

\* C10: keyword arguments that hold one recognized key, with a value of the wrong type,
\* fail with an error that names the key.
C10_ErrorNamesKey ==
    op_pc = "built" =>
        \A key \in RecognizedKeys :
            OnlyKey(op_kwargs, key) /\ WrongType(key, ValueOf(op_kwargs, key))
                => ~op_built.ok /\ NamesKey(op_built.err, key)

\* ---- C4

Failed == \E i \in 1..Len(call_log) : ~call_log[i].ok

\* C4: a step that fails is the last step of the call, which then has returned an error
\* and nothing else; the diff core or renderer never runs after a failed step; no step
\* runs twice; a call that returned a value had no failed step.
C4_FailureAborts ==
    /\ \A i \in 1..Len(call_log) : ~call_log[i].ok =>
          /\ i = Len(call_log)
          /\ call_pc = "done"
          /\ ~call_ret.ok
          /\ DOMAIN call_ret = {"ok", "err"}
    /\ \A i, j \in 1..Len(call_log) :
          i # j => <<call_log[i].step, call_log[i].idx>> # <<call_log[j].step, call_log[j].idx>>
    /\ call_pc = "in_core" => ~Failed
    /\ call_ret # Pending /\ call_ret.ok => ~Failed

C4_Witness ==
    /\ call_fn = "diff"
    /\ call_pc = "done"
    /\ Len(call_log) = 6
    /\ call_log[5] = LogEntry("encode", 1, TRUE)
    /\ call_log[6] = LogEntry("encode", 2, FALSE)
    /\ Len(l_py_results) = 1
    /\ ~call_ret.ok

\* ---- C8

\* C8: while the diff core or the renderer runs, the calling thread does not hold the
\* interpreter lock, and another Python thread can take a step.
C8_LockReleasedInCore ==
    call_pc = "in_core" =>
        /\ gil # "caller"
        /\ host_steps < MaxHostSteps => ENABLED HostThreadStep

\* ---- C9

\* the steps logged follow order, the encode step once per result
Follows(order) ==
    \A i \in 1..Len(call_log) :
        IF i <= Len(order) THEN call_log[i].step = order[i]
        ELSE call_log[i].step = "encode" /\ call_log[i].idx = i - Len(order) + 1

\* a finished call of diff with a malformed ignore_keys_regex and an old value of another class
InvalidOptionsAndInput ==
    /\ call_fn = "diff"
    /\ call_pc = "done"
    /\ call_args.kwargs = Some(PyDict(<< <<PyStr("ignore_keys_regex", TRUE), PyStr("(", TRUE)>> >>))
    /\ call_args.old = PyObj("none", 0, 0)

\* C9, as claimed: diff builds the options, lowers old, lowers new, calls the diff core,
\* encodes the results in order; with invalid options and an unsupported input it
\* reports the error of the options builder.
C9_OptionsFirst ==
    call_fn = "diff" =>
        /\ Follows(<<"build_options", "lower_old", "lower_new", "core", "encode">>)
        /\ InvalidOptionsAndInput => call_ret.err.msg[1] = "Invalid regex: "

\* C9, amended: diff lowers old, lowers new, builds the options, calls the diff core,
\* encodes the results in order; with invalid options and an unsupported input it
\* reports the error of the lowering.
C9_LoweringFirst ==
    call_fn = "diff" =>
        /\ Follows(<<"lower_old", "lower_new", "build_options", "core", "encode">>)
        /\ InvalidOptionsAndInput => call_ret = [ok |-> FALSE, err |-> UnsupportedTypeError]

C9_Witness ==
    /\ InvalidOptionsAndInput
    /\ call_log = <<LogEntry("lower_old", 0, FALSE)>>
    /\ call_ret = [ok |-> FALSE, err |-> UnsupportedTypeError]

====
